---- MODULE Spec2Model ----
(***************************************************************************)
(* A model of the ray tracer's numeric kernel: Matrix (src/src/matrix.rs), *)
(* Canvas (src/src/canvas.rs) and Tuple (src/src/tuple.rs, src/src/vec.rs).*)
(*                                                                         *)
(* f32 values are modelled by integers.  Matrix entries and the x, y, z    *)
(* components of tuples are integer-valued floats, small enough for every  *)
(* sum and product of the model to be exact in f32; the Canvas and Tuple   *)
(* sections state the unit their other numbers are counted in.  A call     *)
(* that panics (an index out of bounds) returns a panic value instead of   *)
(* a result.  Each component has its own specification; the variables of   *)
(* the other components stay at a fixed value in it.                       *)
(***************************************************************************)
EXTENDS Integers, Sequences, FiniteSets

VARIABLES
    a,       \* SpecTranspose, SpecDot: the Matrix `self`
    b,       \* SpecDot: the Matrix `other`
    hist,    \* SpecTranspose: `a` as it was before each of the last two transpose() calls
    canvas,  \* SpecCanvas: the Canvas
    shadow,  \* SpecCanvas: the size the canvas was built with and, per pixel, the
             \* colour of the last write that returned Ok (black when there was none)
    ta,      \* SpecTuple: the Tuple `self`
    tb,      \* SpecTuple: the Tuple `other`
    ret      \* the last call and what it returned

vars == <<a, b, hist, canvas, shadow, ta, tb, ret>>

mvars == <<a, b, hist>>
cvars == <<canvas, shadow>>
tvars == <<ta, tb>>

\* Largest number of stored entries (rows * cols) of an input matrix.
MaxCells == 4

\* The entries an input grid is filled with.
Vals == {0, 1}

Panic == [ok |-> FALSE]
Ok(v) == [ok |-> TRUE, v |-> v]

----------------------------------------------------------------------------
(* Matrix                                                                  *)

\* vec![vec![x; cols]; rows]
Grid(rows, cols, x) == [i \in 1..rows |-> [j \in 1..cols |-> x]]

Matrix_new(rows, cols) ==
    [rows |-> rows, cols |-> cols, values |-> Grid(rows, cols, 0), transposed |-> FALSE]

\* `values[0].len()` panics on an empty outer Vec.
from_values(values) ==
    IF Len(values) = 0
    THEN Panic
    ELSE Ok([rows |-> Len(values), cols |-> Len(values[1]),
             values |-> values, transposed |-> FALSE])

identity(size) ==
    from_values([i \in 1..size |-> [j \in 1..size |-> IF i = j THEN 1 ELSE 0]])

\* values[r][c], a checked index into Vec<Vec<f32>> (0-based).
Index2(values, r, c) ==
    IF r < Len(values) /\ c < Len(values[r + 1])
    THEN Ok(values[r + 1][c + 1])
    ELSE Panic

\* Mutant of get: the transposed flag is ignored.
get_ignores_flag(self, row, col) == Index2(self.values, row, col)

get(self, row, col) ==
    IF ~self.transposed
    THEN Index2(self.values, row, col)
    ELSE Index2(self.values, col, row)

shape(self) == <<self.rows, self.cols>>

\* Mutant of transpose: the swap without the temporary (rows reads the new cols).
transpose_no_temp(self) ==
    [self EXCEPT !.transposed = ~self.transposed,
                 !.cols = self.rows,
                 !.rows = self.rows]

transpose(self) ==
    [self EXCEPT !.transposed = ~self.transposed,
                 !.cols = self.rows,
                 !.rows = self.cols]

\* f32::approx_eq with F32Margin {epsilon: 0.0, ulps: 2}: two integer-valued
\* floats of the model's range are within 2 ULPs only when they are equal.
f32_approx_eq(x, y) == x = y

\* The loops of approx_eq from linear position k on (col outer, row inner):
\* the first unequal pair returns false, a panicking get panics.
RECURSIVE approx_eq_from(_, _, _)
approx_eq_from(self, other, k) ==
    IF k >= self.cols * self.rows
    THEN Ok(TRUE)
    ELSE LET col == k \div self.rows
             row == k % self.rows
             x   == get(self, row, col)
             y   == get(other, row, col)
         IN  IF ~x.ok \/ ~y.ok THEN Panic
             ELSE IF ~f32_approx_eq(x.v, y.v) THEN Ok(FALSE)
             ELSE approx_eq_from(self, other, k + 1)

approx_eq(self, other) == approx_eq_from(self, other, 0)

equals(self, other) == approx_eq(self, other)

\* `sum` after n rounds of the loop `for a in 0..self.cols`.
RECURSIVE dot_sum(_, _, _, _, _)
dot_sum(self, other, i, j, n) ==
    IF n = 0
    THEN Ok(0)
    ELSE LET s == dot_sum(self, other, i, j, n - 1)
             x == get(self, i, n - 1)
             y == get(other, n - 1, j)
         IN  IF s.ok /\ x.ok /\ y.ok THEN Ok(s.v + x.v * y.v) ELSE Panic

dot(self, other) ==
    LET res_shape == <<self.rows, other.cols>>
        cell == [i \in 1..res_shape[1] |->
                    [j \in 1..res_shape[2] |-> dot_sum(self, other, i - 1, j - 1, self.cols)]]
    IN  IF \E i \in 1..res_shape[1] : \E j \in 1..res_shape[2] : ~cell[i][j].ok
        THEN Panic
        ELSE from_values([i \in 1..res_shape[1] |->
                            [j \in 1..res_shape[2] |-> cell[i][j].v]])

\* m.equals(&m.dot(&Matrix::identity(n))), the product and the comparison.
dot_identity(m, n) ==
    LET eye == identity(n)
    IN  IF ~eye.ok THEN Panic
        ELSE LET p == dot(m, eye.v)
             IN  IF ~p.ok THEN Panic
                 ELSE LET e == equals(m, p.v)
                      IN  IF ~e.ok THEN Panic
                          ELSE Ok([product |-> p.v, eq |-> e.v])

\* The shapes and the matrices the constructors are called with.
Shapes == {s \in (0..MaxCells) \X (0..MaxCells) : s[1] * s[2] <= MaxCells}

MatrixInputs ==
    UNION {
        IF s[1] = 0 \/ s[2] = 0
        THEN {Matrix_new(s[1], s[2])}
        ELSE {from_values(g).v : g \in [1..s[1] -> [1..s[2] -> Vals]]}
        : s \in Shapes}

NoCall == [op |-> "none"]

\* What the variables of the other components hold in a specification that
\* does not use them.
NoCanvas == [width |-> 0, height |-> 0, pixels |-> <<>>]
NoTuple == <<0, 0, 0, 0>>

----------------------------------------------------------------------------
(* SpecTranspose: one matrix and its transpose() calls.                    *)

InitTranspose ==
    /\ a \in MatrixInputs
    /\ b = Matrix_new(0, 0)
    /\ hist = <<>>
    /\ ret = NoCall
    /\ canvas = NoCanvas /\ shadow = NoCanvas
    /\ ta = NoTuple /\ tb = NoTuple

Last2(s) == IF Len(s) <= 2 THEN s ELSE SubSeq(s, Len(s) - 1, Len(s))

Transpose ==
    /\ a' = transpose(a)
    /\ hist' = Last2(Append(hist, a))
    /\ ret' = [op |-> "transpose"]
    /\ UNCHANGED <<b, cvars, tvars>>

NextTranspose == Transpose

SpecTranspose == InitTranspose /\ [][NextTranspose]_vars

\* get(i, j) of m is an in-bounds read of the storage: values[i][j] when the
\* flag is false, values[j][i] when it is true.
ReadsStorage(m, i, j) ==
    LET r == IF m.transposed THEN j ELSE i
        c == IF m.transposed THEN i ELSE j
    IN  /\ r < Len(m.values)
        /\ c < Len(m.values[r + 1])
        /\ get(m, i, j) = Ok(m.values[r + 1][c + 1])

InShapeReadsInBounds ==
    \A i \in 0..(a.rows - 1) : \A j \in 0..(a.cols - 1) : ReadsStorage(a, i, j)

TransposeSwapsView ==
    /\ shape(a') = <<shape(a)[2], shape(a)[1]>>
    /\ a'.values = a.values
    /\ \A i \in 0..(shape(a')[1] - 1) : \A j \in 0..(shape(a')[2] - 1) :
          /\ get(a', i, j).ok
          /\ get(a, j, i).ok
          /\ get(a', i, j).v = get(a, j, i).v

\* C2: after any number of transpose() calls, every get(i, j) inside the
\* reported shape is an in-bounds read of the storage (values[i][j] with the
\* flag false, values[j][i] with it true); and one transpose() swaps the
\* reported shape, leaves the stored values untouched and makes get(i, j)
\* return what get(j, i) returned before, for every (i, j) of the new shape.
C2_TransposeIsView ==
    /\ []InShapeReadsInBounds
    /\ [][ret'.op = "transpose" => TransposeSwapsView]_vars

\* A non-square matrix (1 x 3 storage) seen as 3 x 1 after its third transpose().
C2_Witness ==
    /\ ret.op = "transpose"
    /\ Len(hist) = 2
    /\ a.transposed
    /\ shape(a) = <<3, 1>>
    /\ Len(a.values) = 1
    /\ a.values[1] = <<0, 1, 1>>

\* C3: two consecutive transpose() calls restore rows, cols, the transposed
\* flag and the values, and equals() between the matrix and its original is
\* true in both directions.
C3_TransposeTwiceIsIdentity ==
    Len(hist) = 2 =>
        /\ a = hist[1]
        /\ a.rows = hist[1].rows /\ a.cols = hist[1].cols
        /\ a.transposed = hist[1].transposed /\ a.values = hist[1].values
        /\ equals(a, hist[1]) = Ok(TRUE)
        /\ equals(hist[1], a) = Ok(TRUE)

\* Two transposes of a non-square matrix whose flag was already set.
C3_Witness ==
    /\ Len(hist) = 2
    /\ hist[1].transposed
    /\ hist[1].rows = 1 /\ hist[1].cols = 2
    /\ hist[1].values = <<<<1>>, <<0>>>>
    /\ a = hist[1]

----------------------------------------------------------------------------
(* SpecDot: two matrices, their transposes, products and comparisons.      *)

InitDot ==
    /\ a \in MatrixInputs
    /\ b \in MatrixInputs
    /\ hist = <<>>
    /\ ret = NoCall
    /\ canvas = NoCanvas /\ shadow = NoCanvas
    /\ ta = NoTuple /\ tb = NoTuple

TransposeA ==
    /\ a' = transpose(a)
    /\ ret' = [op |-> "transpose"]
    /\ UNCHANGED <<b, hist, cvars, tvars>>

TransposeB ==
    /\ b' = transpose(b)
    /\ ret' = [op |-> "transpose"]
    /\ UNCHANGED <<a, hist, cvars, tvars>>

\* a.dot(&b): both operands are borrowed immutably.
Dot ==
    /\ ret' = [op |-> "dot", r |-> dot(a, b)]
    /\ UNCHANGED <<mvars, cvars, tvars>>

\* a.equals(&a.dot(&Matrix::identity(a.cols)))
DotIdentity ==
    /\ ret' = [op |-> "dot_identity", r |-> dot_identity(a, a.cols)]
    /\ UNCHANGED <<mvars, cvars, tvars>>

\* a.equals(&b)
Equals ==
    /\ ret' = [op |-> "equals", r |-> equals(a, b)]
    /\ UNCHANGED <<mvars, cvars, tvars>>

NextDot == TransposeA \/ TransposeB \/ Dot \/ DotIdentity \/ Equals

SpecDot == InitDot /\ [][NextDot]_vars

\* The sum over k in 0..n-1 of A.get(i, k) * B.get(k, j), read off the
\* logical views of A and B (a get outside the storage counts as 0 here;
\* the callers below only use it where both shapes cover the indices).
LogicalEntry(m, i, j) == IF get(m, i, j).ok THEN get(m, i, j).v ELSE 0

RECURSIVE ProductEntry(_, _, _, _, _)
ProductEntry(A, B, i, j, n) ==
    IF n = 0 THEN 0
    ELSE ProductEntry(A, B, i, j, n - 1) + LogicalEntry(A, i, n - 1) * LogicalEntry(B, n - 1, j)

\* r is the matrix product of A (m x k) and B (k x n).
IsProduct(r, A, B) ==
    /\ r.ok
    /\ shape(r.v) = <<A.rows, B.cols>>
    /\ \A i \in 0..(A.rows - 1) : \A j \in 0..(B.cols - 1) :
          get(r.v, i, j) = Ok(ProductEntry(A, B, i, j, A.cols))

\* C1: for A of logical shape m x k and B of logical shape k x n, under every
\* combination of the transposed flags, A.dot(B) returns a matrix of shape
\* (m, n) whose entry (i, j) is the sum over k of A.get(i, k) * B.get(k, j).
C1_DotIsMatrixProduct ==
    (ret.op = "dot" /\ a.cols = b.rows) => IsProduct(ret.r, a, b)

\* C1 with at least one row in A: the case the code computes.
C1_DotOfNonEmptyRows ==
    (ret.op = "dot" /\ a.cols = b.rows /\ a.rows >= 1) => IsProduct(ret.r, a, b)

\* A product of a transposed 2 x 1 (stored 1 x 2) by a transposed 1 x 2
\* (stored 2 x 1), with a non-zero entry.
C1_WitnessNonEmptyRows ==
    /\ ret.op = "dot"
    /\ a.transposed /\ b.transposed
    /\ shape(a) = <<2, 1>> /\ shape(b) = <<1, 2>>
    /\ ret.r.ok
    /\ get(ret.r.v, 1, 0) = Ok(1)
    /\ get(ret.r.v, 0, 1) = Ok(0)

\* C4: for any matrix m, m.dot(identity(m.cols)) has the logical shape of m
\* and m.equals(product) is true.
C4_DotIdentityIsSelf ==
    ret.op = "dot_identity" =>
        /\ ret.r.ok
        /\ shape(ret.r.v.product) = shape(a)
        /\ ret.r.v.eq = TRUE

\* C4 with at least one row and one column in m: the case the code computes.
C4_DotIdentityOfNonEmpty ==
    (ret.op = "dot_identity" /\ a.rows >= 1 /\ a.cols >= 1) =>
        /\ ret.r.ok
        /\ shape(ret.r.v.product) = shape(a)
        /\ ret.r.v.eq = TRUE
        /\ \A i \in 0..(a.rows - 1) : \A j \in 0..(a.cols - 1) :
              get(ret.r.v.product, i, j) = get(a, i, j)

\* A transposed non-square m (stored 3 x 1, seen as 1 x 3) times identity(3).
C4_WitnessNonEmpty ==
    /\ ret.op = "dot_identity"
    /\ a.transposed
    /\ shape(a) = <<1, 3>>
    /\ ret.r.ok
    /\ ret.r.v.product.values = <<<<1, 0, 1>>>>

\* Every entry pair of two matrices of the same logical shape compares equal.
SameEntries(A, B) ==
    \A i \in 0..(A.rows - 1) : \A j \in 0..(A.cols - 1) :
        /\ get(A, i, j).ok
        /\ get(B, i, j).ok
        /\ f32_approx_eq(get(A, i, j).v, get(B, i, j).v)

\* C12: a.equals(b) returns true only if a and b have the same logical
\* shape; when the shapes differ it returns false (it neither returns true
\* nor panics); so a.equals(b) and b.equals(a) return the same value.
C12_EqualsIsShapeAware ==
    ret.op = "equals" =>
        /\ ret.r.ok
        /\ ret.r.v => shape(a) = shape(b)
        /\ shape(a) # shape(b) => ~ret.r.v
        /\ equals(b, a) = ret.r

\* C12 for operands of the same logical shape, where the code satisfies it:
\* equals returns whether every entry pair is equal, in both directions.
C12_EqualsOfSameShape ==
    (ret.op = "equals" /\ shape(a) = shape(b)) =>
        /\ ret.r = Ok(SameEntries(a, b))
        /\ equals(b, a) = ret.r

\* What equals does with any operands: it walks the shape of self alone, so
\* true means that b agrees with a on every index of a's shape, whatever
\* the shape of b.
C12_EqualsWalksSelfShape ==
    ret.op = "equals" =>
        /\ ret.r = Ok(TRUE) <=> SameEntries(a, b)
        /\ (a.rows = 0 \/ a.cols = 0) => ret.r = Ok(TRUE)

\* A 1 x 1 matrix compared with a 2 x 2 one that has the same entry (0, 0):
\* a.equals(b) is true and b.equals(a) panics.
C12_WitnessShapesDiffer ==
    /\ ret.op = "equals"
    /\ shape(a) = <<1, 1>> /\ shape(b) = <<2, 2>>
    /\ ret.r = Ok(TRUE)
    /\ equals(b, a) = Panic

\* C13: A.dot(B) returns a matrix only when A.cols = B.rows (logical); when
\* A.cols > B.rows or A.cols < B.rows it fails.
C13_DotRejectsIncompatible ==
    ret.op = "dot" =>
        /\ ret.r.ok => a.cols = b.rows
        /\ a.cols # b.rows => ~ret.r.ok

\* C13 for A.cols > B.rows and a result with at least one entry: B.get(k, j)
\* with k >= B.rows is an index out of bounds, and dot panics.
C13_DotPanicsWhenSelfIsWider ==
    (ret.op = "dot" /\ a.cols > b.rows /\ a.rows >= 1 /\ b.cols >= 1) => ~ret.r.ok

\* What dot does for A.cols < B.rows and A.rows >= 1: it returns the
\* A.rows x B.cols matrix of the sums over k < A.cols, and never reads the
\* rows of B from A.cols on.
C13_DotTruncatesWhenSelfIsNarrower ==
    (ret.op = "dot" /\ a.cols < b.rows /\ a.rows >= 1) => IsProduct(ret.r, a, b)

\* What dot does for A.cols > B.rows when B has no column: no entry is
\* computed and the A.rows x 0 matrix is returned.
C13_DotOfNoColumns ==
    (ret.op = "dot" /\ a.rows >= 1 /\ b.cols = 0) =>
        (ret.r.ok /\ shape(ret.r.v) = <<a.rows, 0>>)

\* [[1]] . [[1], [1]]: a 1 x 1 by a 2 x 1, returned as [[1]].
C13_WitnessNarrower ==
    /\ ret.op = "dot"
    /\ shape(a) = <<1, 1>> /\ shape(b) = <<2, 1>>
    /\ ~a.transposed /\ ~b.transposed
    /\ b.values = <<<<1>>, <<1>>>>
    /\ ret.r.ok
    /\ ret.r.v.values = <<<<1>>>>

----------------------------------------------------------------------------
(* Canvas.  A colour component n stands for the f32 n / 4: quarters, and    *)
(* their products with 255, are exact in f32.                              *)

\* Largest number of pixels (width * height) of a canvas.
MaxPixels == 4

\* The f32 with the integer value n.
Whole(n) == 4 * n

\* Tuple::color(r, g, b) = Self(r, g, b, 1.0)
color(red, green, blue) == <<red, green, blue, Whole(1)>>

\* The colours written: black, (1.5, 0.5, -0.5) and (0.25, 0.75, 1.0).
Colors == {color(0, 0, 0), color(6, 2, -2), color(1, 3, 4)}

ResultOk(v) == [kind |-> "Ok", v |-> v]
ResultErr(axis, value, text) == [kind |-> "Err", axis |-> axis, value |-> value, text |-> text]
IndexPanic == [kind |-> "panic"]

\* Vec::get(i): None past the end.
VecGet(v, i) == IF i < Len(v) THEN [some |-> TRUE, v |-> v[i + 1]] ELSE [some |-> FALSE]

Canvas_new(width, height) ==
    [width |-> width, height |-> height,
     pixels |-> [y \in 1..height |-> [x \in 1..width |-> color(0, 0, 0)]]]

get_width(self) == self.width

get_height(self) == self.height

get_pixel_at(self, x, y) ==
    LET row == VecGet(self.pixels, y)
    IN  IF ~row.some
        THEN ResultErr("x", x, "does not exist")
        ELSE LET px == VecGet(row.v, x)
             IN  IF ~px.some
                 THEN ResultErr("y", y, "does not exist")
                 ELSE ResultOk(px.v)

\* self.pixels[y][x] = color, an indexed store that panics out of bounds.
StorePixel(self, x, y, c) ==
    IF y < Len(self.pixels) /\ x < Len(self.pixels[y + 1])
    THEN [canvas |-> [self EXCEPT !.pixels[y + 1][x + 1] = c], r |-> ResultOk(<<>>)]
    ELSE [canvas |-> self, r |-> IndexPanic]

\* Mutant of write_pixel_at: the x guard is off by one (x > width).
write_pixel_at_off_by_one(self, x, y, c) ==
    IF x > self.width
    THEN [canvas |-> self, r |-> ResultErr("x", x, "out of range")]
    ELSE IF y >= self.height
    THEN [canvas |-> self, r |-> ResultErr("y", y, "out of range")]
    ELSE StorePixel(self, x, y, c)

\* Mutant of write_pixel_at: the store indexes pixels[x][y].
write_pixel_at_swapped(self, x, y, c) ==
    IF x >= self.width
    THEN [canvas |-> self, r |-> ResultErr("x", x, "out of range")]
    ELSE IF y >= self.height
    THEN [canvas |-> self, r |-> ResultErr("y", y, "out of range")]
    ELSE StorePixel(self, y, x, c)

\* The canvas after the call, and the call's result.
write_pixel_at(self, x, y, c) ==
    IF x >= self.width
    THEN [canvas |-> self, r |-> ResultErr("x", x, "out of range")]
    ELSE IF y >= self.height
    THEN [canvas |-> self, r |-> ResultErr("y", y, "out of range")]
    ELSE StorePixel(self, x, y, c)

Digit == <<"0", "1", "2", "3", "4", "5", "6", "7", "8", "9">>

\* Display of an unsigned integer: its decimal digits.
RECURSIVE Decimal(_)
Decimal(n) == IF n < 10 THEN <<Digit[n + 1]>> ELSE Decimal(n \div 10) \o <<Digit[(n % 10) + 1]>>

\* Display of an f32 (in quarters): an integer value prints without a
\* fraction, any other with its exact fraction.
f32_Display(v) ==
    LET m    == IF v < 0 THEN -v ELSE v
        sign == IF v < 0 THEN <<"-">> ELSE <<>>
        frac == CASE m % 4 = 0 -> <<>>
                  [] m % 4 = 1 -> <<".", "2", "5">>
                  [] m % 4 = 2 -> <<".", "5">>
                  [] m % 4 = 3 -> <<".", "7", "5">>
    IN  sign \o Decimal(m \div 4) \o frac

\* f32::clamp(min, max)
clamp(v, min, max) == IF v < min THEN min ELSE IF v > max THEN max ELSE v

\* Mutant of round: truncation towards zero.
round_truncates(v) == IF v >= 0 THEN 4 * (v \div 4) ELSE -(4 * ((-v) \div 4))

\* f32::round: to the nearest integer, halves away from zero.
round(v) == IF v >= 0 THEN 4 * ((v + 2) \div 4) ELSE -(4 * ((2 - v) \div 4))

\* (channel * 255.).clamp(0., 255.).round()
Channel(ch) == round(clamp(ch * 255, Whole(0), Whole(255)))

\* format!("{} {} {} ", red, green, blue)
PixelText(pixel) ==
    f32_Display(Channel(pixel[1])) \o <<" ">> \o
    f32_Display(Channel(pixel[2])) \o <<" ">> \o
    f32_Display(Channel(pixel[3])) \o <<" ">>

\* The inner loop `for pixel in col` over the pixels from position k on.
RECURSIVE RowText(_, _)
RowText(row, k) == IF k > Len(row) THEN <<>> ELSE PixelText(row[k]) \o RowText(row, k + 1)

\* The outer loop `for col in &self.pixels` over the rows from position k on.
RECURSIVE RowsText(_, _)
RowsText(pixels, k) ==
    IF k > Len(pixels) THEN <<>>
    ELSE RowText(pixels[k], 1) \o <<"\n">> \o RowsText(pixels, k + 1)

to_ppm_string(self) ==
    <<"P", "3", "\n">> \o Decimal(self.width) \o <<" ">> \o Decimal(self.height)
        \o <<"\n", "2", "5", "5", "\n">> \o RowsText(self.pixels, 1)

\* The sizes a canvas is built with.
CanvasSizes == {s \in (0..MaxPixels) \X (0..MaxPixels) : s[1] * s[2] <= MaxPixels}

InitCanvas ==
    /\ \E s \in CanvasSizes :
          /\ canvas = Canvas_new(s[1], s[2])
          /\ shadow = [width |-> s[1], height |-> s[2],
                       px |-> [q \in (0..(s[1] - 1)) \X (0..(s[2] - 1)) |-> color(0, 0, 0)]]
    /\ ret = NoCall
    /\ a = Matrix_new(0, 0) /\ b = Matrix_new(0, 0) /\ hist = <<>>
    /\ ta = NoTuple /\ tb = NoTuple

\* The coordinates the calls are made with: in range, one and two past the end.
Xs == 0..(canvas.width + 1)
Ys == 0..(canvas.height + 1)

GetPixel ==
    \E x \in Xs : \E y \in Ys :
        /\ ret' = [op |-> "get_pixel_at", x |-> x, y |-> y, r |-> get_pixel_at(canvas, x, y)]
        /\ UNCHANGED <<mvars, cvars, tvars>>

WritePixel ==
    \E x \in Xs : \E y \in Ys : \E c \in Colors :
        LET w == write_pixel_at(canvas, x, y, c)
        IN  /\ canvas' = w.canvas
            /\ shadow' = IF w.r.kind = "Ok"
                         THEN [shadow EXCEPT !.px[<<x, y>>] = c]
                         ELSE shadow
            /\ ret' = [op |-> "write_pixel_at", x |-> x, y |-> y, c |-> c, r |-> w.r]
            /\ UNCHANGED <<mvars, tvars>>

ToPpm ==
    /\ ret' = [op |-> "to_ppm_string", r |-> to_ppm_string(canvas)]
    /\ UNCHANGED <<mvars, cvars, tvars>>

NextCanvas == GetPixel \/ WritePixel \/ ToPpm

SpecCanvas == InitCanvas /\ [][NextCanvas]_vars

InRange(x, y) == x < shadow.width /\ y < shadow.height

IsPixelCall == ret.op \in {"get_pixel_at", "write_pixel_at"}

\* C5: on a canvas built with width W and height H (0 included),
\* get_pixel_at(x, y) and write_pixel_at(x, y, c) return Ok exactly when
\* x < W and y < H and an Err value (not a panic) exactly when x >= W or
\* y >= H; a write that returns Err leaves pixels, width and height unchanged.
C5_BoundsAreChecked ==
    /\ [](IsPixelCall =>
            /\ ret.r.kind \in {"Ok", "Err"}
            /\ (ret.r.kind = "Ok") <=> InRange(ret.x, ret.y)
            /\ (ret.r.kind = "Err") <=> (ret.x >= shadow.width \/ ret.y >= shadow.height))
    /\ [][(ret'.op = "write_pixel_at" /\ ret'.r.kind # "Ok") => canvas' = canvas]_vars

\* A write refused at x = W on a canvas that already holds a written pixel.
C5_Witness ==
    /\ ret.op = "write_pixel_at"
    /\ ret.r.kind = "Err"
    /\ ret.x = shadow.width /\ ret.y < shadow.height
    /\ shadow.width = 2 /\ shadow.height = 2
    /\ canvas.pixels[1][2] = color(6, 2, -2)

\* C6: when only x is out of range the error of get_pixel_at and of
\* write_pixel_at names the x axis and carries x (so get_pixel_at(W, 0)
\* names x with the value W whenever row 0 exists); when only y is out of
\* range it names the y axis and carries y.
C6_ErrorNamesOffendingAxis ==
    IsPixelCall =>
        /\ (ret.x >= shadow.width /\ ret.y < shadow.height) =>
              (ret.r.kind = "Err" /\ ret.r.axis = "x" /\ ret.r.value = ret.x)
        /\ (ret.x < shadow.width /\ ret.y >= shadow.height) =>
              (ret.r.kind = "Err" /\ ret.r.axis = "y" /\ ret.r.value = ret.y)

\* C6 for write_pixel_at alone: the half of the claim the code satisfies.
C6_WriteErrorNamesOffendingAxis ==
    ret.op = "write_pixel_at" =>
        /\ (ret.x >= shadow.width /\ ret.y < shadow.height) =>
              (ret.r.kind = "Err" /\ ret.r.axis = "x" /\ ret.r.value = ret.x)
        /\ (ret.x < shadow.width /\ ret.y >= shadow.height) =>
              (ret.r.kind = "Err" /\ ret.r.axis = "y" /\ ret.r.value = ret.y)

\* get_pixel_at(W, 0) on a canvas with a row 0: the error get_pixel_at builds.
C6_GetErrorNamesOtherAxis ==
    (ret.op = "get_pixel_at" /\ ret.x >= shadow.width /\ ret.y < shadow.height) =>
        (ret.r.kind = "Err" /\ ret.r.axis = "y" /\ ret.r.value = ret.y)

\* C7: after Canvas::new(W, H) and any writes, get_pixel_at(x, y) of every
\* in-range (x, y) returns the colour of the last write to (x, y) that
\* returned Ok, or black (0, 0, 0, w = 1) if there was none (so a write
\* changes no other pixel, and a refused write none), and get_width and
\* get_height return W and H.
C7_ReadsLastWrite ==
    /\ get_width(canvas) = shadow.width
    /\ get_height(canvas) = shadow.height
    /\ \A x \in 0..(shadow.width - 1) : \A y \in 0..(shadow.height - 1) :
          get_pixel_at(canvas, x, y) = ResultOk(shadow.px[<<x, y>>])

\* A refused write after two accepted ones on a 2 x 2 canvas: (1, 0) holds
\* the second colour written there, (0, 1) was never written.
C7_Witness ==
    /\ ret.op = "write_pixel_at" /\ ret.r.kind = "Err"
    /\ shadow.width = 2 /\ shadow.height = 2
    /\ get_pixel_at(canvas, 1, 0) = ResultOk(color(1, 3, 4))
    /\ get_pixel_at(canvas, 0, 1) = ResultOk(<<0, 0, 0, 4>>)
    /\ get_pixel_at(canvas, 0, 0) = ResultOk(color(6, 2, -2))

\* The integer nearest to clamp(ch / 4 * 255, 0, 255), the upper one of two
\* equally near.
NearestChannel(ch) ==
    LET v == IF ch * 255 < 0 THEN 0 ELSE IF ch * 255 > 4 * 255 THEN 4 * 255 ELSE ch * 255
    IN  CHOOSE n \in 0..255 : 4 * n - 2 <= v /\ v < 4 * n + 2

RECURSIVE Flatten(_)
Flatten(ss) == IF ss = <<>> THEN <<>> ELSE Head(ss) \o Flatten(Tail(ss))

\* "<r> <g> <b> " of the pixel get_pixel_at(x, y) returns.
ExpectedPixel(x, y) ==
    LET px == get_pixel_at(canvas, x, y).v
    IN  Flatten([k \in 1..3 |-> Decimal(NearestChannel(px[k])) \o <<" ">>])

\* Line y: the W pixels of row y, x = 0 first, then the newline.
ExpectedLine(y) ==
    Flatten([k \in 1..shadow.width |-> ExpectedPixel(k - 1, y)]) \o <<"\n">>

ExpectedPpm ==
    <<"P", "3", "\n">> \o Decimal(shadow.width) \o <<" ">> \o Decimal(shadow.height)
        \o <<"\n", "2", "5", "5", "\n">>
        \o Flatten([k \in 1..shadow.height |-> ExpectedLine(k - 1)])

\* C8: to_ppm_string returns "P3\n<W> <H>\n255\n" and then exactly H lines,
\* line y holding the W pixels of row y, x = 0 first, each as "<r> <g> <b> ",
\* every channel clamp(channel * 255, 0, 255) rounded to the nearest integer
\* with halves up; the call leaves the canvas unchanged.
C8_PpmText ==
    /\ [](ret.op = "to_ppm_string" =>
            /\ ret.r = ExpectedPpm
            /\ Cardinality({k \in 1..Len(ret.r) : ret.r[k] = "\n"}) = shadow.height + 3)
    /\ [][ret'.op = "to_ppm_string" => canvas' = canvas]_vars

\* The text of a 2 x 2 canvas holding (1.5, 0.5, -0.5) at (1, 0) and
\* (0.25, 0.75, 1.0) at (0, 1).
C8_Witness ==
    /\ ret.op = "to_ppm_string"
    /\ ret.r = <<"P", "3", "\n", "2", " ", "2", "\n", "2", "5", "5", "\n",
                 "0", " ", "0", " ", "0", " ", "2", "5", "5", " ", "1", "2", "8", " ", "0", " ", "\n",
                 "6", "4", " ", "1", "9", "1", " ", "2", "5", "5", " ", "0", " ", "0", " ", "0", " ", "\n">>

----------------------------------------------------------------------------
(* Tuple.  x, y and z are integer-valued f32.  w is counted in units of     *)
(* 2^-24, the spacing of f32 just below 1.0 (above 1.0 the spacing is two  *)
(* units), so that the values next to 1.0 can be told from it.             *)

\* Largest absolute value of an x, y or z component of an input tuple.
MaxComp == 1

\* 1.0 as a w component.
One == 2 ^ 24

\* f32::EPSILON = 2^-23.
EPSILON == 2

abs(v) == IF v < 0 THEN -v ELSE v

point(x, y, z) == <<x, y, z, One>>

vector(x, y, z) == <<x, y, z, 0>>

\* tuple.rs.  self.3 - 1.0 is exact wherever it is near EPSILON.
is_point(self) == abs(self[4] - One) < EPSILON

is_vector(self) == self[4] = 0

\* vec.rs, the module lib.rs declares.
vec_is_point(self) == self[4] = One

vec_is_vector(self) == self[4] = 0

\* Mutant of cross: the operands of the y component are exchanged.
cross_y_exchanged(self, other) ==
    vector(self[2] * other[3] - self[3] * other[2],
           self[1] * other[3] - self[3] * other[1],
           self[1] * other[2] - self[2] * other[1])

cross(self, other) ==
    vector(self[2] * other[3] - self[3] * other[2],
           self[3] * other[1] - self[1] * other[3],
           self[1] * other[2] - self[2] * other[1])

add(self, rhs) == <<self[1] + rhs[1], self[2] + rhs[2], self[3] + rhs[3], self[4] + rhs[4]>>

\* Mutant of sub: the w components are added.
sub_w_added(self, rhs) ==
    <<self[1] - rhs[1], self[2] - rhs[2], self[3] - rhs[3], self[4] + rhs[4]>>

sub(self, rhs) == <<self[1] - rhs[1], self[2] - rhs[2], self[3] - rhs[3], self[4] - rhs[4]>>

neg(self) == <<-self[1], -self[2], -self[3], -self[4]>>

\* #[derive(PartialEq)]: the four components compare equal (as f32, where
\* -0.0 == 0.0, like the integers -0 and 0).
tuple_eq(self, other) == \A k \in 1..4 : self[k] = other[k]

Comps == (-MaxComp)..MaxComp

\* The w components of the inputs of SpecTuple: a vector, a point, and the
\* w = 2.0 that the sum of two points has.
Ws == {0, One, 2 * One}

InitTuple ==
    /\ ta \in Comps \X Comps \X Comps \X Ws
    /\ tb \in Comps \X Comps \X Comps \X Ws
    /\ ret = NoCall
    /\ a = Matrix_new(0, 0) /\ b = Matrix_new(0, 0) /\ hist = <<>>
    /\ canvas = NoCanvas /\ shadow = NoCanvas

\* ta.cross(&tb), and ta.cross(&tb) == -tb.cross(&ta)
Cross ==
    /\ ret' = [op |-> "cross", r |-> cross(ta, tb),
               anti |-> tuple_eq(cross(ta, tb), neg(cross(tb, ta)))]
    /\ UNCHANGED <<mvars, cvars, tvars>>

\* ta + tb
Add ==
    /\ ret' = [op |-> "add", r |-> add(ta, tb)]
    /\ UNCHANGED <<mvars, cvars, tvars>>

\* ta - tb
Sub ==
    /\ ret' = [op |-> "sub", r |-> sub(ta, tb)]
    /\ UNCHANGED <<mvars, cvars, tvars>>

NextTuple == Cross \/ Add \/ Sub

SpecTuple == InitTuple /\ [][NextTuple]_vars

\* C9: cross(a, b) is a vector (w = 0) whatever the w of a and b, is the
\* cross product of their first three components, and cross(a, b) ==
\* -cross(b, a) under Tuple equality.
C9_CrossAntiCommutes ==
    ret.op = "cross" =>
        /\ ret.r[4] = 0
        /\ is_vector(ret.r)
        /\ ret.r[1] = ta[2] * tb[3] - ta[3] * tb[2]
        /\ ret.r[2] = ta[3] * tb[1] - ta[1] * tb[3]
        /\ ret.r[3] = ta[1] * tb[2] - ta[2] * tb[1]
        /\ ret.anti = TRUE
        /\ \A k \in 1..4 : ret.r[k] + cross(tb, ta)[k] = 0

\* The cross product of a point and a w = 2 tuple with a non-zero result in
\* every component.
C9_Witness ==
    /\ ret.op = "cross"
    /\ ta = <<1, 0, -1, One>>
    /\ tb = <<0, 1, 1, 2 * One>>
    /\ ret.r = <<1, -1, 1, 0>>
    /\ ret.anti = TRUE

\* A point as Tuple::point builds it (w = 1.0), a vector as Tuple::vector
\* builds it (w = 0.0).
IsBuiltPoint(t) == t = point(t[1], t[2], t[3])
IsBuiltVector(t) == t = vector(t[1], t[2], t[3])

\* C11: + and - work on all four components, so for points p, q and vectors
\* u, v: p - q is a vector, p - v is a point, u - v is a vector and p + v is a
\* point, each with the component-wise x, y, z; p + q is not rejected and
\* has w = 2, which is neither is_point() nor is_vector().
C11_KindFollowsW ==
    /\ ret.op = "sub" =>
          /\ \A k \in 1..3 : ret.r[k] = ta[k] - tb[k]
          /\ (IsBuiltPoint(ta) /\ IsBuiltPoint(tb)) => (is_vector(ret.r) /\ ~is_point(ret.r))
          /\ (IsBuiltPoint(ta) /\ IsBuiltVector(tb)) => (is_point(ret.r) /\ ~is_vector(ret.r))
          /\ (IsBuiltVector(ta) /\ IsBuiltVector(tb)) => (is_vector(ret.r) /\ ~is_point(ret.r))
    /\ ret.op = "add" =>
          /\ \A k \in 1..3 : ret.r[k] = ta[k] + tb[k]
          /\ (IsBuiltPoint(ta) /\ IsBuiltVector(tb)) => (is_point(ret.r) /\ ~is_vector(ret.r))
          /\ (IsBuiltPoint(ta) /\ IsBuiltPoint(tb)) =>
                (ret.r[4] = 2 * One /\ ~is_point(ret.r) /\ ~is_vector(ret.r))

\* The sum of the points (1, -1, 0) and (1, 1, -1): (2, 0, -1) with w = 2.
C11_Witness ==
    /\ ret.op = "add"
    /\ ta = point(1, -1, 0)
    /\ tb = point(1, 1, -1)
    /\ ret.r = <<2, 0, -1, 2 * One>>

----------------------------------------------------------------------------
(* SpecClassify: is_point and is_vector of tuple.rs and of vec.rs.         *)

\* The w components classified: around 0.0, around 1.0 (1 - 2^-23, 1 - 2^-24,
\* 1, 1 + 2^-23), -1.0 and 2.0.
ClassifiedWs == {-1, 0, 1, One - 2, One - 1, One, One + 2, -One, 2 * One}

InitClassify ==
    /\ ta \in Comps \X Comps \X Comps \X ClassifiedWs
    /\ tb = NoTuple
    /\ ret = NoCall
    /\ a = Matrix_new(0, 0) /\ b = Matrix_new(0, 0) /\ hist = <<>>
    /\ canvas = NoCanvas /\ shadow = NoCanvas

\* tuple.rs: ta.is_point() and ta.is_vector()
Classify ==
    /\ ret' = [op |-> "classify", file |-> "tuple.rs",
               is_point |-> is_point(ta), is_vector |-> is_vector(ta)]
    /\ UNCHANGED <<mvars, cvars, tvars>>

\* vec.rs: ta.is_point() and ta.is_vector()
VecClassify ==
    /\ ret' = [op |-> "classify", file |-> "vec.rs",
               is_point |-> vec_is_point(ta), is_vector |-> vec_is_vector(ta)]
    /\ UNCHANGED <<mvars, cvars, tvars>>

NextClassify == Classify \/ VecClassify

SpecClassify == InitClassify /\ [][NextClassify]_vars

\* |w - 1.0| < f32::EPSILON, where w is a multiple of 2^-24.
WithinEpsilonOfOne(w) == One - 2 < w /\ w < One + 2

\* C10: in tuple.rs and in vec.rs, is_point() is true iff |w - 1.0| is
\* smaller than f32::EPSILON (also for a w that drifted from 1.0 by less than
\* epsilon), is_vector() is true iff w == 0.0, and no tuple is both.
C10_Classification ==
    ret.op = "classify" =>
        /\ ret.is_point <=> WithinEpsilonOfOne(ta[4])
        /\ ret.is_vector <=> (ta[4] = 0)
        /\ ~(ret.is_point /\ ret.is_vector)

\* C10 for tuple.rs alone, where it holds.
C10_TupleRsClassification ==
    (ret.op = "classify" /\ ret.file = "tuple.rs") =>
        /\ ret.is_point <=> WithinEpsilonOfOne(ta[4])
        /\ ret.is_vector <=> (ta[4] = 0)
        /\ ~(ret.is_point /\ ret.is_vector)

\* What vec.rs does: is_point() is true iff w == 1.0 exactly.
C10_VecRsIsExact ==
    (ret.op = "classify" /\ ret.file = "vec.rs") =>
        /\ ret.is_point <=> (ta[4] = One)
        /\ ret.is_vector <=> (ta[4] = 0)
        /\ ~(ret.is_point /\ ret.is_vector)

\* tuple.rs classifies w = 1 - 2^-24 as a point.
C10_WitnessDrift ==
    /\ ret.op = "classify" /\ ret.file = "tuple.rs"
    /\ ta[4] = One - 1
    /\ ret.is_point /\ ~ret.is_vector

====
